---- MODULE Spec2Model ----
(***************************************************************************)
(* The search worker of src/worker.ts: the module-level state, the slice   *)
(* runner (cycle / liveLoop), the notification emitter (resume / post) and *)
(* the command handler (onmessage), together with the host's timer queue   *)
(* (setTimeout / clearTimeout) and the engine contract the worker consumes *)
(* (makeInitialDb, stepTreeRandomDFS, factToString).                       *)
(***************************************************************************)
EXTENDS Integers, Sequences, FiniteSets, TLC

(* ------------------------------ bounds --------------------------------- *)
\* CYCLE_LIMIT is 10000 in worker.ts:35; the model scales the quota down so
\* that a slice can reach it.
CYCLE_LIMIT == 2
\* The most loop tests the TIME_LIMIT deadline lets one slice pass.
MaxClock == 2
\* The most steps the engine can perform on one tree before the tree is
\* exhausted or the step raises.
MaxAge == 3
\* The history counters stop counting here.
ReportCap == 2

Programs == {"p1", "p2"}
Thrown == {"bad rule", "stack"}

(* --------------------------- null / non-null --------------------------- *)
Null == <<>>
Some(x) == <<x>>

(* ------------------------------- state --------------------------------- *)
VARIABLES
    program,        \* worker.ts:37  Program | null
    queuedFacts,    \* worker.ts:38  Fact[] | null
    queuedError,    \* worker.ts:39  string | null
    stats,          \* worker.ts:41  {cycles, deadEnds}
    tree,           \* worker.ts:47  ChoiceTree | null
    path,           \* worker.ts:48
    liveLoopHandle, \* worker.ts:83  timer handle | null
    timers,         \* the host's pending setTimeout(liveLoop) callbacks
    posted,         \* what the handler that ran last passed to postMessage
    pc,             \* "boot" until the module body has run, then "ready"
    last,           \* the handler that ran last, and the state it found
    solutionReports, \* saturated notifications that carried the solution
                     \* stored last (capped at ReportCap)
    errorReports,    \* error notifications that carried the error stored
                     \* last (capped at ReportCap)
    lastSolution     \* the solution a slice stored last, and whether the
                     \* tree was null when that slice ended

vars == <<program, queuedFacts, queuedError, stats, tree, path,
          liveLoopHandle, timers, posted, pc, last, solutionReports,
          errorReports, lastSolution>>

\* The worker's variables as one value, so that the code's statements can be
\* applied one after another.
W == [program |-> program, queuedFacts |-> queuedFacts,
      queuedError |-> queuedError, stats |-> stats, tree |-> tree,
      path |-> path, liveLoopHandle |-> liveLoopHandle, timers |-> timers,
      posted |-> <<>>]

Becomes(w) ==
    /\ program' = w.program
    /\ queuedFacts' = w.queuedFacts
    /\ queuedError' = w.queuedError
    /\ stats' = w.stats
    /\ tree' = w.tree
    /\ path' = w.path
    /\ liveLoopHandle' = w.liveLoopHandle
    /\ timers' = w.timers
    /\ posted' = w.posted

ZeroStats == [cycles |-> 0, deadEnds |-> 0]

(* ------------------------- the engine's contract ----------------------- *)
\* `${e}` of a thrown Error
Template(e) == <<"Error:", e>>

\* makeInitialDb(program): a database, or a throw
makeInitialDb(p) ==
    {[throws |-> FALSE, db |-> [prog |-> p, age |-> 0], e |-> ""]}
      \cup {[throws |-> TRUE, db |-> [prog |-> p, age |-> 0], e |-> e] : e \in Thrown}

\* The solutions a step can report: result.solution.facts maps a relation
\* name to its list of [args, value] pairs (entries in insertion order).
Solutions ==
    { [facts |-> <<>>],
      [facts |-> << <<"p", << << <<1>>, "tt" >>, << <<2>>, "tt" >> >> >>,
                    <<"q", << << <<>>, "a" >> >> >> >>] }

Aged(t) == [type |-> "choice", db |-> [t.db EXCEPT !.age = @ + 1]]
PathOf(t) == [i \in 1..t.db.age |-> "defer"]
Bump(s, dead) == [cycles |-> s.cycles + 1, deadEnds |-> s.deadEnds + dead]

\* stepTreeRandomDFS(program, tree, path, stats): one unit of search work.
\* It counts the step in stats (and a dead end when it abandons a branch),
\* and returns the next tree (null when the search is exhausted), the next
\* path and, possibly, a solution; or it throws.
stepTreeRandomDFS(p, t, pth, s) ==
    LET more == t.db.age + 1 < MaxAge
        go == {[throws |-> FALSE, e |-> "", tree |-> Some(Aged(t)),
                path |-> PathOf(Aged(t)), solution |-> Null,
                stats |-> Bump(s, d)] : d \in {0, 1}}
        found == {[throws |-> FALSE, e |-> "", tree |-> Some(Aged(t)),
                   path |-> PathOf(Aged(t)), solution |-> Some(sol),
                   stats |-> Bump(s, 0)] : sol \in Solutions}
        foundLast == {[throws |-> FALSE, e |-> "", tree |-> Null,
                       path |-> pth, solution |-> Some(sol),
                       stats |-> Bump(s, 0)] : sol \in Solutions}
        exhausted == {[throws |-> FALSE, e |-> "", tree |-> Null,
                       path |-> pth, solution |-> Null,
                       stats |-> Bump(s, 1)]}
        raises == {[throws |-> TRUE, e |-> e, tree |-> Some(t), path |-> pth,
                    solution |-> Null, stats |-> st] :
                      e \in Thrown, st \in {s, Bump(s, 0)}}
    IN  (IF more THEN go \cup found ELSE {})
          \cup foundLast \cup exhausted \cup raises

\* factToString(fact): the external string form, as its tokens
factToString(f) == <<f.name, "(">> \o f.args \o <<")", "is", f.value>>

(* ------------------------------ helpers -------------------------------- *)
RECURSIVE Concat(_)
Concat(ss) == IF ss = <<>> THEN <<>> ELSE Head(ss) \o Concat(Tail(ss))

\* worker.ts:62-71: the solution's facts, flattened to a list of Fact records
FlattenFacts(facts) ==
    LET OfEntry(name, argses) ==
          [j \in 1..Len(argses) |->
             [type |-> "Fact", name |-> name,
              args |-> argses[j][1], value |-> argses[j][2]]]
    IN  Concat([i \in 1..Len(facts) |-> OfEntry(facts[i][1], facts[i][2])])

\* worker.ts:115: queuedFacts.map(factToString)
FactStrings(facts) == [i \in 1..Len(facts) |-> factToString(facts[i])]

\* worker.ts:43-45
post(w, message) == [w EXCEPT !.posted = Append(@, message)]

\* The host's setTimeout(liveLoop): a handle no pending timer has
setTimeout(w) ==
    LET used == w.timers \cup {w.liveLoopHandle[i] : i \in DOMAIN w.liveLoopHandle}
        id == CHOOSE i \in 1..(Cardinality(used) + 1) :
                 /\ i \notin used
                 /\ \A j \in 1..(i - 1) : j \in used
    IN  [h |-> id, w |-> [w EXCEPT !.timers = @ \cup {id}]]

\* The host's clearTimeout(handle)
clearTimeout(w, h) == [w EXCEPT !.timers = @ \ {h}]

(* ---------------------------- Slice Runner ----------------------------- *)
\* worker.ts:53-80: the loop of cycle(), from its test on. limit is the
\* quota; clock counts the loop tests the deadline still lets pass. The
\* result is every outcome the engine's answers allow.
RECURSIVE cycleLoop(_, _, _)
cycleLoop(w, limit, clock) ==
    IF ~(w.stats.cycles < limit /\ clock > 0) THEN {[w |-> w, ret |-> TRUE]}
    ELSE IF w.tree = Null THEN {[w |-> w, ret |-> FALSE]}
    ELSE LET after(r) ==
               IF r.throws
               THEN {[w |-> [w EXCEPT !.stats = r.stats,
                                      !.queuedError = Some(Template(r.e))],
                      ret |-> FALSE]}
               ELSE LET w1 == [w EXCEPT !.stats = r.stats,
                                        !.tree = r.tree,
                                        !.path = IF r.tree = Null THEN @ ELSE r.path]
                    IN  IF r.solution # Null
                        THEN {[w |-> [w1 EXCEPT !.queuedFacts =
                                        Some(FlattenFacts(r.solution[1].facts))],
                               ret |-> FALSE]}
                        ELSE cycleLoop(w1, limit, clock - 1)
         IN  UNION {after(r) :
                      r \in stepTreeRandomDFS(w.program, w.tree[1], w.path, w.stats)}

\* cycle whose exhausted check asks for another slice
cycle_ExhaustedGoesOn(w, jitter, clock) ==
    IF w.tree = Null
    THEN {[w |-> w, ret |-> TRUE]}
    ELSE cycleLoop(w, w.stats.cycles + CYCLE_LIMIT + jitter, clock)

\* cycle whose catch asks for another slice
cycle_CatchGoesOn(w, jitter, clock) ==
    {IF c.w.queuedError # w.queuedError THEN [c EXCEPT !.ret = TRUE] ELSE c :
       c \in cycleLoop(w, w.stats.cycles + CYCLE_LIMIT + jitter, clock)}

\* worker.ts:50-81. jitter is Math.random() * CYCLE_LIMIT rounded up (the
\* counter is an integer, so only the rounded quota matters).
cycle(w, jitter, clock) ==
    cycleLoop(w, w.stats.cycles + CYCLE_LIMIT + jitter, clock)

\* liveLoop that reports the state itself when the slice stops
liveLoop_Announces(w, jitter, clock) ==
    { IF c.ret
      THEN LET t == setTimeout(c.w) IN [t.w EXCEPT !.liveLoopHandle = Some(t.h)]
      ELSE post([c.w EXCEPT !.liveLoopHandle = Null],
                [type |-> "done", stats |-> c.w.stats]) :
        c \in cycle(w, jitter, clock) }

\* liveLoop that does not schedule the next slice when cycle returns true
liveLoop_NoRearm(w, jitter, clock) ==
    { IF c.ret THEN c.w ELSE [c.w EXCEPT !.liveLoopHandle = Null] :
        c \in cycle(w, jitter, clock) }

\* liveLoop that schedules the next slice whatever cycle returned
liveLoop_IgnoresResult(w, jitter, clock) ==
    { LET t == setTimeout(c.w) IN [t.w EXCEPT !.liveLoopHandle = Some(t.h)] :
        c \in cycle(w, jitter, clock) }

\* worker.ts:84-90
liveLoop(w, jitter, clock) ==
    { IF c.ret
      THEN LET t == setTimeout(c.w) IN [t.w EXCEPT !.liveLoopHandle = Some(t.h)]
      ELSE [c.w EXCEPT !.liveLoopHandle = Null] : c \in cycle(w, jitter, clock) }

(* ------------------------- Notification Emitter ------------------------ *)
\* resume that reports a solution without taking it out of the buffer
resume_KeepsFacts(w, state) ==
    CASE state = "error" ->
           post(w, [type |-> "error", message |-> w.queuedError[1],
                    stats |-> w.stats])
      [] state \in {"paused", "done"} ->
           post(w, [type |-> state, stats |-> w.stats])
      [] state = "running" ->
           LET t == setTimeout(w)
           IN  post([t.w EXCEPT !.liveLoopHandle = Some(t.h)],
                    [type |-> "running", stats |-> w.stats])
      [] state = "saturated" ->
           post(w, [type |-> "saturated",
                    facts |-> FactStrings(w.queuedFacts[1]),
                    last |-> (w.tree = Null),
                    stats |-> w.stats])

\* resume that takes a reported error out of the buffer, as it does a
\* reported solution
resume_ClearsError(w, state) ==
    CASE state = "error" ->
           post([w EXCEPT !.queuedError = Null],
                [type |-> "error", message |-> w.queuedError[1],
                 stats |-> w.stats])
      [] state \in {"paused", "done"} ->
           post(w, [type |-> state, stats |-> w.stats])
      [] state = "running" ->
           LET t == setTimeout(w)
           IN  post([t.w EXCEPT !.liveLoopHandle = Some(t.h)],
                    [type |-> "running", stats |-> w.stats])
      [] state = "saturated" ->
           post([w EXCEPT !.queuedFacts = Null],
                [type |-> "saturated",
                 facts |-> FactStrings(w.queuedFacts[1]),
                 last |-> (w.tree = Null),
                 stats |-> w.stats])

\* resume that never reports a solution as the last one
resume_NeverLast(w, state) ==
    IF state = "saturated"
    THEN post([w EXCEPT !.queuedFacts = Null],
              [type |-> "saturated",
               facts |-> FactStrings(w.queuedFacts[1]),
               last |-> FALSE,
               stats |-> w.stats])
    ELSE resume_KeepsFacts(w, state)

\* worker.ts:93-123
resume(w, state) ==
    CASE state = "error" ->
           post(w, [type |-> "error", message |-> w.queuedError[1],
                    stats |-> w.stats])
      [] state = "paused" ->
           post(w, [type |-> "paused", stats |-> w.stats])
      [] state = "done" ->
           post(w, [type |-> "done", stats |-> w.stats])
      [] state = "running" ->
           LET t == setTimeout(w)
           IN  post([t.w EXCEPT !.liveLoopHandle = Some(t.h)],
                    [type |-> "running", stats |-> w.stats])
      [] state = "saturated" ->
           LET msg == [type |-> "saturated",
                       facts |-> FactStrings(w.queuedFacts[1]),
                       last |-> (w.tree = Null),
                       stats |-> w.stats]
           IN  post([w EXCEPT !.queuedFacts = Null], msg)

(* ------------------------ Lifecycle State Machine ---------------------- *)
\* worker.ts:127-136
InferState(w) ==
    IF w.liveLoopHandle # Null THEN "running"
    ELSE IF w.queuedError # Null THEN "error"
    ELSE IF w.queuedFacts # Null THEN "saturated"
    ELSE IF w.tree = Null THEN "done"
    ELSE "paused"

\* Pause that forgets the handle without cancelling the timer
Pause_NoClear(w) == [w EXCEPT !.liveLoopHandle = Null]

\* worker.ts:139-142
Pause(w) ==
    IF w.liveLoopHandle # Null
    THEN [clearTimeout(w, w.liveLoopHandle[1]) EXCEPT !.liveLoopHandle = Null]
    ELSE w

\* load that keeps the counters of the previous program
onLoad_KeepsStats(w, p, made) ==
    LET w1 == [w EXCEPT !.path = <<>>, !.program = Some(p),
                        !.queuedFacts = Null, !.queuedError = Null]
    IN  IF made.throws
        THEN resume([w1 EXCEPT !.queuedError = Some(Template(made.e))], "error")
        ELSE resume([w1 EXCEPT !.tree = Some([type |-> "leaf", db |-> made.db])],
                    "paused")

\* load that leaves the pending result of the previous program in place
onLoad_KeepsPending(w, p, made) ==
    LET w1 == [w EXCEPT !.stats = ZeroStats, !.path = <<>>, !.program = Some(p)]
    IN  IF made.throws
        THEN resume([w1 EXCEPT !.queuedError = Some(Template(made.e))], "error")
        ELSE resume([w1 EXCEPT !.tree = Some([type |-> "leaf", db |-> made.db])],
                    "paused")

\* worker.ts:145-157; made is what makeInitialDb did
onLoad(w, p, made) ==
    LET w1 == [w EXCEPT !.stats = ZeroStats, !.path = <<>>, !.program = Some(p),
                        !.queuedFacts = Null, !.queuedError = Null]
    IN  IF made.throws
        THEN resume([w1 EXCEPT !.queuedError = Some(Template(made.e))], "error")
        ELSE resume([w1 EXCEPT !.tree = Some([type |-> "leaf", db |-> made.db])],
                    "paused")

\* start that also runs from done
onStart_AlsoFromDone(w, state) ==
    IF state \in {"paused", "done"} THEN resume(w, "running") ELSE resume(w, state)

\* worker.ts:158-162
onStart(w, state) ==
    IF state = "paused" THEN resume(w, "running") ELSE resume(w, state)

\* stop that reports paused whatever the state
onStop_AlwaysPaused(w, state) == resume(w, "paused")

\* worker.ts:163-167
onStop(w, state) ==
    IF state = "running" THEN resume(w, "paused") ELSE resume(w, state)

\* reset that leaves a pending error in place
onReset_KeepsError(w) ==
    LET w1 == [w EXCEPT !.stats = ZeroStats, !.tree = Null, !.path = <<>>,
                        !.program = Null, !.queuedFacts = Null]
    IN  post(w1, [type |-> "reset", stats |-> w1.stats])

\* worker.ts:168-175
onReset(w) ==
    LET w1 == [w EXCEPT !.stats = ZeroStats, !.tree = Null, !.path = <<>>,
                        !.program = Null, !.queuedFacts = Null,
                        !.queuedError = Null]
    IN  post(w1, [type |-> "reset", stats |-> w1.stats])

\* status that falls through to the start case
onStatus_Starts(w, state) ==
    IF state = "paused" THEN resume(w, "running") ELSE resume(w, state)

\* worker.ts:176-177
onStatus(w, state) == resume(w, state)

\* worker.ts:125-179, for every command but load (which takes an outcome of
\* makeInitialDb)
onmessage(w, type) ==
    LET state == InferState(w)
        w1 == Pause(w)
    IN  CASE type = "start" -> onStart(w1, state)
          [] type = "stop" -> onStop(w1, state)
          [] type = "reset" -> onReset(w1)
          [] type = "status" -> onStatus(w1, state)

(* -------------------------- history variables -------------------------- *)
Count(n) == IF n < ReportCap THEN n + 1 ELSE ReportCap

Types(w) == {w.posted[i].type : i \in DOMAIN w.posted}

\* How many notifications have carried the result stored last, after a
\* handler that left the worker as w2; stored says the handler stored a new
\* result of that kind (worker.ts:62, 76, 155), type is its notification
\* (worker.ts:96, 114).
Reports(n, stored, type, w2) ==
    LET base == IF stored THEN 0 ELSE n
    IN  IF type \in Types(w2) THEN Count(base) ELSE base

Command(type, w2, storedError) ==
    /\ Becomes(w2)
    /\ last' = [kind |-> "command", type |-> type, state |-> InferState(W)]
    /\ solutionReports' = Reports(solutionReports, FALSE, "saturated", w2)
    /\ errorReports' = Reports(errorReports, storedError, "error", w2)
    /\ lastSolution' = lastSolution
    /\ pc' = pc

(* ------------------------------ actions -------------------------------- *)
Init ==
    /\ program = Null
    /\ queuedFacts = Null
    /\ queuedError = Null
    /\ stats = ZeroStats
    /\ tree = Null
    /\ path = <<>>
    /\ liveLoopHandle = Null
    /\ timers = {}
    /\ posted = <<>>
    /\ pc = "boot"
    /\ last = [kind |-> "none", type |-> "none", state |-> "none"]
    /\ solutionReports = 0
    /\ errorReports = 0
    /\ lastSolution = Null

\* worker.ts:181: the module body ends by posting hello
Hello ==
    /\ pc = "boot"
    /\ Becomes(post(W, [stats |-> stats, type |-> "hello"]))
    /\ pc' = "ready"
    /\ last' = [kind |-> "boot", type |-> "none", state |-> "none"]
    /\ UNCHANGED <<solutionReports, errorReports, lastSolution>>

Load ==
    /\ pc = "ready"
    /\ \E p \in Programs : \E made \in makeInitialDb(p) :
         Command("load", onLoad(Pause(W), p, made), made.throws)

Start == pc = "ready" /\ Command("start", onmessage(W, "start"), FALSE)

Stop == pc = "ready" /\ Command("stop", onmessage(W, "stop"), FALSE)

Reset == pc = "ready" /\ Command("reset", onmessage(W, "reset"), FALSE)

Status == pc = "ready" /\ Command("status", onmessage(W, "status"), FALSE)

\* The host runs a pending timer's callback: liveLoop
Timer ==
    /\ pc = "ready"
    /\ \E t \in timers : \E jitter \in 0..CYCLE_LIMIT : \E clock \in 1..MaxClock :
         \E w2 \in liveLoop([W EXCEPT !.timers = @ \ {t}], jitter, clock) :
           /\ Becomes(w2)
           /\ last' = [kind |-> "slice", type |-> "none",
                        state |-> IF tree = Null THEN "exhausted" ELSE "active"]
           /\ solutionReports' =
                Reports(solutionReports,
                        w2.queuedFacts # Null /\ w2.queuedFacts # queuedFacts,
                        "saturated", w2)
           /\ errorReports' =
                Reports(errorReports,
                        w2.queuedError # Null /\ w2.queuedError # queuedError,
                        "error", w2)
           /\ lastSolution' = IF w2.queuedFacts # Null /\ w2.queuedFacts # queuedFacts
                             THEN Some([facts |-> w2.queuedFacts[1],
                                        exhausted |-> (w2.tree = Null)])
                             ELSE lastSolution
           /\ pc' = pc

Next == Hello \/ Load \/ Start \/ Stop \/ Reset \/ Status \/ Timer

Spec == Init /\ [][Next]_vars

\* The worker when the host sends stop, load and reset only while nothing is
\* armed, and runs every timer it holds.
LoadIdle == liveLoopHandle = Null /\ Load

StopIdle == liveLoopHandle = Null /\ Stop

ResetIdle == liveLoopHandle = Null /\ Reset

NextUndisturbed ==
    Hello \/ LoadIdle \/ StopIdle \/ ResetIdle \/ Start \/ Status \/ Timer

SpecUndisturbed == Init /\ [][NextUndisturbed]_vars /\ WF_vars(Timer)

(* ------------------------------- claims -------------------------------- *)
\* The step is the handling of command type.
Handled(type) == last'.kind = "command" /\ last'.type = type

\* The step is the run of one slice.
Sliced == last'.kind = "slice"

\* Exactly one continuation is armed after the step: the handle names the
\* one timer the host holds.
ArmedAfter == liveLoopHandle' # Null /\ timers' = {liveLoopHandle'[1]}

\* No continuation is armed after the step, and no timer is left to fire.
DisarmedAfter == liveLoopHandle' = Null /\ timers' = {}

\* The search made no progress in the step.
NoProgress ==
    /\ stats' = stats
    /\ tree' = tree
    /\ path' = path
    /\ program' = program

PendingSame == queuedFacts' = queuedFacts /\ queuedError' = queuedError

\* The step emitted the one notification of that type, with the counters as
\* they were before the step.
Emitted(type) ==
    /\ Len(posted') = 1
    /\ posted'[1].type = type
    /\ posted'[1].stats = stats

\* C1: start arms a continuation and emits running exactly when the state
\* inferred before the command was paused or running; in error, saturated
\* and done it emits that state and leaves nothing armed, and start while
\* done changes nothing and leaves no slice to run.
C1_StartArmsIffPausedOrRunning ==
    [][Handled("start") =>
         LET pre == InferState(W) IN
         /\ (pre \in {"paused", "running"}) <=> (ArmedAfter /\ Emitted("running"))
         /\ (pre \in {"paused", "running"}) <=> liveLoopHandle' # Null
         /\ pre \in {"error", "saturated", "done"} =>
               DisarmedAfter /\ Emitted(pre)
         /\ pre = "done" => NoProgress /\ PendingSame]_vars

\* C1 witness: start has been handled in state done and has reported done.
C1_Witness ==
    /\ last = [kind |-> "command", type |-> "start", state |-> "done"]
    /\ posted[1].type = "done"
    /\ liveLoopHandle = Null

\* The state the next command will infer.
InferredAfter == InferState(W)'

\* The handler that ran before this step was a start that armed a
\* continuation, and no slice has run since.
JustStarted ==
    last.kind = "command" /\ last.type = "start" /\ liveLoopHandle # Null

\* C2, first sentence: stop with a continuation armed cancels it and emits
\* paused, and a slice runs only while a continuation is armed.
C2_StopCancels ==
    [][/\ (Handled("stop") /\ liveLoopHandle # Null) =>
            DisarmedAfter /\ Emitted("paused") /\ NoProgress /\ PendingSame
       /\ Sliced => liveLoopHandle # Null /\ timers = {liveLoopHandle[1]}
       /\ (timers = {} /\ ~NoProgress) => last'.kind = "command"]_vars

\* C2, last sentence: in every other state stop emits that state.
C2_StopEchoes ==
    [][(Handled("stop") /\ liveLoopHandle = Null) =>
         Emitted(InferState(W)) /\ DisarmedAfter /\ NoProgress]_vars

\* C2, "in particular": start immediately followed by stop ends disarmed,
\* in state paused, with the counters unchanged.
C2_StartThenStop ==
    [][(Handled("stop") /\ JustStarted) =>
         DisarmedAfter /\ InferredAfter = "paused" /\ stats' = stats]_vars

\* C2: a stop processed while a continuation is armed cancels it and emits
\* paused, no slice runs until a command re-arms; start then stop with no
\* slice in between ends disarmed, paused, counters unchanged; in every
\* other state stop emits the state it found.
C2_StopSymmetry == C2_StopCancels /\ C2_StopEchoes /\ C2_StartThenStop

PostedTypes == {posted[i].type : i \in DOMAIN posted}

\* C3: a solution stored by a slice is carried by at most one saturated
\* notification; while it is pending it has not been delivered, and it
\* leaves the buffer only by that notification or by load or reset; after a
\* saturated notification nothing is pending, and only a slice makes a
\* solution pending.
C3_SingleDelivery ==
    /\ [](solutionReports <= 1)
    /\ [](queuedFacts # Null => solutionReports = 0)
    /\ [][/\ "saturated" \in PostedTypes' =>
              /\ last'.kind = "command"
              /\ queuedFacts # Null
              /\ posted'[1].facts = FactStrings(queuedFacts[1])
              /\ queuedFacts' = Null
              /\ queuedError' = Null
          /\ (queuedFacts # Null /\ queuedFacts' # queuedFacts) =>
              Emitted("saturated") \/ Handled("load") \/ Handled("reset")
          /\ (queuedFacts' # Null /\ queuedFacts' # queuedFacts) => Sliced]_vars

\* C3 witness: a solution found by a slice has been delivered, once.
C3_Witness ==
    /\ solutionReports = 1
    /\ posted # <<>>
    /\ posted[1].type = "saturated"
    /\ queuedFacts = Null

\* C4 as stated: the notification that delivers a pending result, saturated
\* or error, clears it, and no pending result is reported twice.
C4_EveryResultReportedOnce ==
    /\ solutionReports <= 1
    /\ errorReports <= 1
    /\ PostedTypes \cap {"saturated", "error"} # {} =>
          queuedFacts = Null /\ queuedError = Null

\* C4 amended: a pending solution is reported once, by the saturated
\* notification that clears it; an error notification leaves the error it
\* reports pending.
C4_SolutionOnceErrorKept ==
    /\ solutionReports <= 1
    /\ "saturated" \in PostedTypes => queuedFacts = Null /\ queuedError = Null
    /\ "error" \in PostedTypes =>
          queuedError = Some(posted[1].message) /\ queuedFacts = Null

\* C4 witness: the same pending error has been reported twice.
C4_Witness == errorReports = 2 /\ queuedError # Null /\ "error" \in PostedTypes

\* C5: while an error is pending no slice runs, and start, stop and status
\* emit error with the pending message and change nothing; the inferred
\* state is error, and only load and reset leave it.
C5_ErrorEchoed ==
    /\ [](queuedError # Null => InferState(W) = "error")
    /\ [][queuedError # Null =>
            /\ last'.kind = "command"
            /\ last'.type \in {"start", "stop", "status"} =>
                  /\ Emitted("error")
                  /\ posted'[1].message = queuedError[1]
                  /\ DisarmedAfter
                  /\ NoProgress
                  /\ PendingSame
                  /\ InferredAfter = "error"
            /\ InferredAfter # "error" => Handled("load") \/ Handled("reset")]_vars

\* C5 witness: start has been handled with an error pending.
C5_Witness ==
    /\ last = [kind |-> "command", type |-> "start", state |-> "error"]
    /\ posted[1].type = "error"
    /\ queuedError # Null

\* The worker is as it was before any program was loaded.
Fresh ==
    /\ program = Null
    /\ tree = Null
    /\ path = <<>>
    /\ stats = ZeroStats
    /\ queuedFacts = Null
    /\ queuedError = Null
    /\ liveLoopHandle = Null
    /\ timers = {}

\* C6: reset, from any state, emits reset with zero counters and leaves the
\* worker as before any load; from there status, start and stop emit done
\* with zero counters and leave it so.
C6_ResetTotality ==
    [][/\ Handled("reset") =>
            Fresh' /\ posted' = <<[type |-> "reset", stats |-> ZeroStats]>>
       /\ (Fresh /\ (Handled("status") \/ Handled("start") \/ Handled("stop"))) =>
            Fresh' /\ posted' = <<[type |-> "done", stats |-> ZeroStats]>>]_vars

\* C6 witness: reset has been handled while a continuation was armed.
C6_Witness ==
    /\ last = [kind |-> "command", type |-> "reset", state |-> "running"]
    /\ Fresh
    /\ posted[1].type = "reset"

\* C7: neither counter decreases except by load and reset, which zero both;
\* start, stop and status leave both as they are; only a slice raises them.
C7_CountersMonotonic ==
    [][/\ (Handled("load") \/ Handled("reset")) => stats' = ZeroStats
       /\ ~(Handled("load") \/ Handled("reset")) =>
            /\ stats'.cycles >= stats.cycles
            /\ stats'.deadEnds >= stats.deadEnds
       /\ (Handled("start") \/ Handled("stop") \/ Handled("status")) =>
            stats' = stats
       /\ (stats'.cycles > stats.cycles \/ stats'.deadEnds > stats.deadEnds) =>
            Sliced]_vars

\* C7 witness: a load that failed has zeroed the counters that slices had
\* raised on the tree it left in place.
C7_Witness ==
    /\ last.kind = "command" /\ last.type = "load"
    /\ stats = ZeroStats
    /\ queuedError # Null
    /\ tree # Null
    /\ tree[1].db.age > 1

\* C8: status in state paused, done or error emits that state and changes
\* nothing: counters, pending result, search state, program, and the
\* continuation stays disarmed.
C8_StatusEcho ==
    [][(Handled("status") /\ InferState(W) \in {"paused", "done", "error"}) =>
         /\ Emitted(InferState(W))
         /\ NoProgress
         /\ PendingSame
         /\ DisarmedAfter
         /\ InferredAfter = InferState(W)]_vars

\* C8 witness: status has been handled in state paused.
C8_Witness ==
    /\ last = [kind |-> "command", type |-> "status", state |-> "paused"]
    /\ posted[1].type = "paused"
    /\ stats.cycles > 0

\* C9: status with a continuation armed leaves exactly one slice scheduled,
\* emits running and changes neither counters, search state nor pending
\* result; the worker is still running.
C9_StatusWhileRunning ==
    [][(Handled("status") /\ liveLoopHandle # Null) =>
         /\ ArmedAfter
         /\ Emitted("running")
         /\ NoProgress
         /\ PendingSame
         /\ InferredAfter = "running"]_vars

\* C9 witness: status has been handled while running, after some steps.
C9_Witness ==
    /\ last = [kind |-> "command", type |-> "status", state |-> "running"]
    /\ liveLoopHandle # Null
    /\ stats.cycles > 0

\* C10: hello is emitted once, by the module body, before any command;
\* every command emits exactly one notification (never hello); a slice
\* emits none.
C10_NotificationsOnlyOnCommand ==
    /\ [](pc = "boot" => last.kind = "none" /\ posted = <<>>)
    /\ [][/\ pc = "ready" => pc' = "ready"
          /\ "hello" \in PostedTypes' <=> pc = "boot"
          /\ pc = "boot" => posted' = <<[stats |-> ZeroStats, type |-> "hello"]>>
          /\ last'.kind = "command" => Len(posted') = 1
          /\ Sliced => posted' = <<>>]_vars

\* C10 witness: a slice has stored a solution and emitted nothing.
C10_Witness ==
    /\ last.kind = "slice"
    /\ queuedFacts # Null
    /\ posted = <<>>

\* The [args, value] pairs of a solution, by entry and position.
PairsOf(sol) ==
    UNION {{<<i, j>> : j \in 1..Len(sol.facts[i][2])} : i \in 1..Len(sol.facts)}

\* fs lists exactly the facts of sol: one Fact for each pair of each entry.
ListsFactsOf(fs, sol) ==
    /\ Len(fs) = Cardinality(PairsOf(sol))
    /\ {fs[k] : k \in 1..Len(fs)} =
         {[type |-> "Fact", name |-> sol.facts[ij[1]][1],
           args |-> sol.facts[ij[1]][2][ij[2]][1],
           value |-> sol.facts[ij[1]][2][ij[2]][2]] : ij \in PairsOf(sol)}

\* C11: what a slice stores is the list of the facts of one solution of the
\* engine; a saturated notification carries the strings of the facts the
\* slice stored, and last says whether the tree was null when that slice
\* ended; the tree does not change while a solution is pending, unless load
\* or reset is handled.
C11_SaturatedCarriesSolution ==
    [][/\ (Sliced /\ queuedFacts' # Null) =>
            \E sol \in Solutions : ListsFactsOf(queuedFacts'[1], sol)
       /\ "saturated" \in PostedTypes' =>
            /\ lastSolution # Null
            /\ posted'[1].facts =
                 [k \in 1..Len(lastSolution[1].facts) |->
                    factToString(lastSolution[1].facts[k])]
            /\ posted'[1].last = lastSolution[1].exhausted
            /\ tree' = tree
       /\ (queuedFacts # Null /\ tree' # tree) =>
            Handled("load") \/ Handled("reset")]_vars

\* C11 witness: a saturated notification has carried three facts, with last
\* true.
C11_Witness ==
    /\ "saturated" \in PostedTypes
    /\ Len(posted[1].facts) = 3
    /\ posted[1].last
    /\ tree = Null

\* C12: load, from any state, leaves nothing armed, zero counters and no
\* pending solution, and installs the program; it emits paused with an
\* active tree built from that program, nothing pending and inferred state
\* paused, or it emits error with the message it stored and inferred state
\* error; and a continuation gets armed from a disarmed state only by start.
C12_LoadTotality ==
    [][/\ Handled("load") =>
            /\ DisarmedAfter
            /\ stats' = ZeroStats
            /\ queuedFacts' = Null
            /\ path' = <<>>
            /\ program' # Null
            /\ Len(posted') = 1
            /\ posted'[1].stats = ZeroStats
            /\ \/ /\ posted'[1].type = "paused"
                  /\ queuedError' = Null
                  /\ tree' = Some([type |-> "leaf",
                                    db |-> [prog |-> program'[1], age |-> 0]])
                  /\ InferredAfter = "paused"
               \/ /\ posted'[1].type = "error"
                  /\ queuedError' # Null
                  /\ posted'[1].message = queuedError'[1]
                  /\ \E e \in Thrown : queuedError'[1] = Template(e)
                  /\ InferredAfter = "error"
       /\ (liveLoopHandle = Null /\ liveLoopHandle' # Null) => Handled("start")
       /\ Sliced => liveLoopHandle # Null]_vars

\* C12 witness: load has been handled while a continuation was armed, and
\* building the initial state failed.
C12_Witness ==
    /\ last = [kind |-> "command", type |-> "load", state |-> "running"]
    /\ posted[1].type = "error"
    /\ liveLoopHandle = Null

\* C12 witness for the other outcome: load has replaced a pending solution
\* by a paused search.
C12_WitnessPaused ==
    /\ last = [kind |-> "command", type |-> "load", state |-> "saturated"]
    /\ posted[1].type = "paused"

\* C13: a continuation is armed (the slice returned true) only while the
\* tree is active and neither a solution nor an error is stored; it is never
\* armed while the tree is null.
C13_ArmedOnlyWhenActive ==
    liveLoopHandle # Null =>
      tree # Null /\ queuedFacts = Null /\ queuedError = Null

\* C13, the part about results: a slice that returns true has stored
\* neither a solution nor an error.
C13_ArmedOnlyWhenNothingStored ==
    liveLoopHandle # Null => queuedFacts = Null /\ queuedError = Null

\* C14: a slice that begins with the tree null performs no step: counters,
\* pending result and tree stay as they are, nothing is armed afterwards,
\* and the status that follows emits done with those counters.
C14_ExhaustedSliceIsIdle ==
    [][/\ (Sliced /\ tree = Null) =>
            /\ NoProgress
            /\ PendingSame
            /\ DisarmedAfter
            /\ InferredAfter = "done"
       /\ (Handled("status") /\ last.kind = "slice" /\ last.state = "exhausted") =>
            Emitted("done") /\ NoProgress]_vars

\* C14 witness: a slice has run on a null tree, after some steps.
C14_Witness ==
    /\ last = [kind |-> "slice", type |-> "none", state |-> "exhausted"]
    /\ liveLoopHandle = Null
    /\ stats.cycles > 0

\* C15: a slice in which a step raises stores the message of the failure as
\* the pending error and no solution, keeps the tree that the steps before
\* the failing one committed, and arms nothing; the start, stop or status
\* that follows emits error with that message.
C15_StepFailureStopsSlice ==
    [][/\ (Sliced /\ queuedError' # Null) =>
            /\ \E e \in Thrown : queuedError' = Some(Template(e))
            /\ queuedFacts' = Null
            /\ tree # Null /\ tree' # Null
            /\ tree'[1].db.prog = tree[1].db.prog
            /\ LET steps == tree'[1].db.age - tree[1].db.age
               IN  /\ steps >= 0
                   /\ stats'.cycles - stats.cycles \in {steps, steps + 1}
                   /\ steps = 0 => tree' = tree /\ path' = path
            /\ DisarmedAfter
            /\ InferredAfter = "error"
       /\ /\ last.kind = "slice" /\ queuedError # Null
          /\ (Handled("status") \/ Handled("start") \/ Handled("stop"))
          => Emitted("error") /\ posted'[1].message = queuedError[1]]_vars

\* C15 witness: the second step of a slice has raised.
C15_Witness ==
    /\ last.kind = "slice"
    /\ queuedError # Null
    /\ tree # Null
    /\ tree[1].db.age = 1
    /\ stats.cycles = 2

\* C16: at most one of these holds: a continuation is armed, an error is
\* pending, a solution is pending; and no timer is left to run a slice while
\* a result is pending.
C16_ArmedErrorSolutionExclusive ==
    /\ ~(liveLoopHandle # Null /\ queuedError # Null)
    /\ ~(liveLoopHandle # Null /\ queuedFacts # Null)
    /\ ~(queuedError # Null /\ queuedFacts # Null)
    /\ (queuedError # Null \/ queuedFacts # Null) => timers = {}

\* C16 witness: a slice has left a solution pending on an active tree, with
\* nothing armed.
C16_Witness ==
    /\ last.kind = "slice"
    /\ queuedFacts # Null
    /\ tree # Null
    /\ liveLoopHandle = Null

\* C17: the host holds at most one scheduled slice, and it holds one exactly
\* when the handle is non-null, namely the one the handle names; so the
\* slice that runs is the armed one, never one a command cancelled.
C17_OneSliceScheduled ==
    /\ [](Cardinality(timers) <= 1)
    /\ [](timers = {liveLoopHandle[i] : i \in DOMAIN liveLoopHandle})
    /\ [][Sliced => liveLoopHandle # Null /\ timers = {liveLoopHandle[1]}]_vars
    /\ [][(last'.kind = "command" /\ liveLoopHandle # Null) =>
            timers' \in {{}, {liveLoopHandle'[i] : i \in DOMAIN liveLoopHandle'}}]_vars

\* C17 witness: stop has cancelled the armed slice, and no timer is left.
C17_Witness ==
    /\ last = [kind |-> "command", type |-> "stop", state |-> "running"]
    /\ timers = {}
    /\ liveLoopHandle = Null
    /\ stats.cycles > 0

\* C18: right after a paused notification the tree is active, nothing is
\* pending and nothing is armed, so the state the next command infers is
\* paused.
C18_PausedMeansResumable ==
    "paused" \in PostedTypes =>
      /\ tree # Null
      /\ queuedFacts = Null
      /\ queuedError = Null
      /\ liveLoopHandle = Null
      /\ timers = {}
      /\ InferState(W) = "paused"

\* C18, for the paused notifications of load alone.
C18_PausedByLoadMeansResumable ==
    ("paused" \in PostedTypes /\ last.type = "load") => InferState(W) = "paused"

\* The tree was not built from the program that is loaded now.
Stale ==
    tree # Null /\ (program = Null \/ tree[1].db.prog # program[1])

\* C19: a slice that steps (it begins with a tree) runs with a program
\* loaded and on a tree built from that program; a tree left in place by a
\* load that failed stays behind a pending error with nothing armed, so no
\* step is performed on it, and none with no program.
C19_StepsOnOwnProgram ==
    /\ [](Stale => queuedError # Null /\ liveLoopHandle = Null /\ timers = {})
    /\ [](program = Null => tree = Null /\ timers = {})
    /\ [][(Sliced /\ (tree # Null \/ stats' # stats)) =>
            /\ program # Null
            /\ tree # Null
            /\ tree[1].db.prog = program[1]
            /\ program' = program]_vars

\* C19 witness: a failed load of another program has left the tree of the
\* previous program, already stepped, in place.
C19_Witness ==
    /\ Stale
    /\ program # Null
    /\ tree[1].db.age > 0
    /\ last.type = "load"

\* C20: when the host runs the timers it holds and sends no stop, load or
\* reset while a continuation is armed, an armed continuation leads to a
\* state with nothing armed whose inferred state is saturated, error or
\* done; and each slice that leaves the handle set has scheduled exactly the
\* next slice.
C20_TrampolineEnds ==
    /\ (liveLoopHandle # Null) ~>
         (/\ liveLoopHandle = Null
          /\ timers = {}
          /\ InferState(W) \in {"saturated", "error", "done"})
    /\ [][Sliced =>
            \/ ArmedAfter
            \/ DisarmedAfter /\ InferredAfter \in {"saturated", "error", "done"}]_vars

\* C20 witness: a run of more steps than one slice can take has ended with
\* a solution pending and nothing armed.
C20_Witness ==
    /\ last.kind = "slice"
    /\ liveLoopHandle = Null
    /\ queuedFacts # Null
    /\ stats.cycles > MaxClock

====
